---- MODULE Spec2Model ----
(***************************************************************************)
(* FileBackupTool: the incremental backup (phase2.cpp, IncrementalBackup)  *)
(* and the deduplicating backup (phase3.cpp, DeduplicationBackup).         *)
(*                                                                         *)
(* A behaviour is a sequence of runs of ONE of the two programs against    *)
(* the same destination, with edits of the source tree between runs.  A    *)
(* run is StartBackup; its recursive walk (BackupDirectory) is unfolded    *)
(* into one step per directory entry, with an explicit call stack.         *)
(* Everything the operating system decides (a file that cannot be opened,  *)
(* a copy that fails, a directory that cannot be listed or created) is a   *)
(* choice made by the step that performs the call.                         *)
(***************************************************************************)
EXTENDS Integers, Sequences, FiniteSets, TLC

(* ------------------------------ bounds --------------------------------- *)
MaxRuns == 2        \* runs of the program in one behaviour
MaxEdits == 1       \* edits of the source tree in one behaviour
MaxTime == 2        \* last-write times are 1..MaxTime
MaxFaults == 1      \* system calls that fail in one behaviour

(* ------------------------------ the world ------------------------------ *)
\* The manifest / index file before any run has written it.
NoFile == [exists |-> FALSE, lines |-> <<>>]

\* File contents, their byte sizes and their SHA-256 fingerprints (first
\* four hex digits).  "hello" and "world" have the same size.
Contents == {"hello", "world", "hi"}

SizeOf(c) == IF c = "hi" THEN 2 ELSE 5

Sha256(c) ==
    CASE c = "hello" -> "2cf2"
      [] c = "world" -> "486e"
      [] c = "hi"    -> "8f43"
      [] OTHER       -> "e3b0"      \* the digest of no bytes at all

\* The source tree: root\a.txt, root\assets\c.txt, root\b.txt.  Paths are
\* sequences of names; a directory path stands for the string that ends in
\* a backslash.
SourceRoot == <<"Source">>
DestRoot == <<"Backup">>

DirNames == {"assets"}

\* Names in the order FindFirstFileA/FindNextFileA return them.
DirEntries(dir) ==
    IF dir = <<>> THEN <<"a.txt", "assets", "b.txt">>
    ELSE IF dir = <<"assets">> THEN <<"c.txt">>
    ELSE <<>>

FilePaths == {<<"a.txt">>, <<"assets", "c.txt">>, <<"b.txt">>}
DirPaths == {<<"assets">>}

\* std::map<string, ...> iterates its keys in this order.
MapOrder == << <<"a.txt">>, <<"assets", "c.txt">>, <<"b.txt">> >>

FileStates == [content : Contents, mtime : 1..MaxTime]

\* The source trees a behaviour starts from: {a.txt: "hello", b.txt: "hello"}
\* alone, and the three files with b.txt equal to or different from a.txt.
InitialTrees ==
    {[p \in {<<"a.txt">>, <<"b.txt">>} |-> [content |-> "hello", mtime |-> 1]]}
    \cup
    {[p \in FilePaths |->
        [content |-> IF p = <<"a.txt">> THEN "hello"
                     ELSE IF p = <<"b.txt">> THEN c ELSE "hi",
         mtime |-> 1]] : c \in {"hello", "world"}}

Parent(path) == SubSeq(path, 1, Len(path) - 1)

IsPrefix(p, q) == Len(p) <= Len(q) /\ SubSeq(q, 1, Len(p)) = p

(* ------------------------------ state ---------------------------------- *)
VARIABLES
    phase,          \* 2: IncrementalBackup runs; 3: DeduplicationBackup runs
    srcRoot,        \* "dir", "file" or "missing": what the source path is
    srcFiles,       \* relative path of each source file -> [content, mtime]
    destDirs,       \* directories that exist under the destination volume
    destFiles,      \* phase 2: path of each mirrored file -> content
    blobs,          \* phase 3: fingerprint -> content of <fingerprint>.bin
    diskFile,       \* .backup_manifest.txt / .dedup_index.txt: [exists, lines]
    manifest,       \* phase 2: ManifestManager::manifest
    incrementalMode,\* phase 2: IncrementalBackup::incrementalMode
    fileHashMap,    \* phase 3: DeduplicationIndex::fileHashMap
    referenceCount, \* phase 3: DeduplicationStore::referenceCount
    stats,          \* BackupStats
    stack,          \* the active calls of BackupDirectory, innermost last
    pc,             \* "idle", "walking", "done"
    result,         \* what StartBackup returned
    runs,           \* runs started so far
    edits,          \* edits of the source made so far
    faults,         \* system calls that have failed so far
    lastOp,         \* history: what the last step did
    visits,         \* history: entry -> times it was processed in this run
    run,            \* history: facts about the current run
    prev            \* history: facts about the run before

vars == <<phase, srcRoot, srcFiles, destDirs, destFiles, blobs, diskFile,
          manifest, incrementalMode, fileHashMap, referenceCount, stats,
          stack, pc, result, runs, edits, faults, lastOp, visits, run,
          prev>>

(* ------------------------------ maps ----------------------------------- *)
EmptyMap == [k \in {} |-> 0]

\* m[k] = v of std::map.
Put(m, k, v) == [x \in DOMAIN m \cup {k} |-> IF x = k THEN v ELSE m[x]]

(* ------------------------------ BackupStats ---------------------------- *)
ZeroStats ==
    [filesProcessed |-> 0, filesSkipped |-> 0, filesCopied |-> 0,
     filesNew |-> 0, filesModified |-> 0, filesDeduped |-> 0,
     directoriesCreated |-> 0, errors |-> 0, totalBytes |-> 0,
     bytesCopied |-> 0, bytesDeduplicated |-> 0]

(* ------------------------------ FileHasher ----------------------------- *)
\* How a call of CalculateHash ends: "ok"; "fail": the file or the crypto
\* context cannot be opened; "short": ReadFile fails, the read loop ends and
\* the digest of the bytes hashed so far (none, the files are smaller than a
\* chunk) is returned.
HashOutcomes == {"ok", "fail", "short"}

CalculateHash(content, how) ==
    CASE how = "ok"    -> Sha256(content)
      [] how = "fail"  -> ""
      [] how = "short" -> Sha256("")

(* ------------------------------ text of numbers ------------------------ *)
RECURSIVE Digits(_)
Digits(n) == IF n < 10 THEN <<n>> ELSE Append(Digits(n \div 10), n % 10)

\* operator<< of a long long / time_t.
FormatInt(n) == [neg |-> n < 0, digits |-> Digits(IF n < 0 THEN -n ELSE n)]

RECURSIVE DigitsValue(_)
DigitsValue(d) ==
    IF d = <<>> THEN 0
    ELSE 10 * DigitsValue(SubSeq(d, 1, Len(d) - 1)) + d[Len(d)]

stoll(t) == IF t.neg THEN 0 - DigitsValue(t.digits) ELSE DigitsValue(t.digits)

\* std::stoll throws std::invalid_argument when the text starts with no
\* number; text after the number is ignored.
stoll_throws(t) == t.digits = <<>>

(* ------------------------------ ManifestManager (phase 2) -------------- *)
\* A line of the file is the sequence of its '|'-separated fields; the empty
\* line is <<>>.
RECURSIVE ManifestLines(_, _)
ManifestLines(m, order) ==
    IF order = <<>> THEN <<>>
    ELSE LET p == Head(order) IN
         (IF p \in DOMAIN m
             THEN << <<p, m[p].hash, FormatInt(m[p].size),
                       FormatInt(m[p].lastModified)>> >>
             ELSE <<>>) \o ManifestLines(m, Tail(order))

\* Save: [ok, file].  canOpen: the ofstream could be opened.
ManifestManager_Save(m, file, canOpen) ==
    IF ~canOpen THEN [ok |-> FALSE, file |-> file]
    ELSE [ok |-> TRUE,
          file |-> [exists |-> TRUE, lines |-> ManifestLines(m, MapOrder)]]

RECURSIVE ManifestParse(_, _)
ManifestParse(lines, m) ==
    IF lines = <<>> THEN m
    ELSE LET line == Head(lines) IN
         ManifestParse(Tail(lines),
            IF Len(line) >= 4
               THEN Put(m, line[1], [hash |-> line[2], size |-> stoll(line[3]),
                                     lastModified |-> stoll(line[4])])
               ELSE m)

\* A Load without manifest.clear().
ManifestManager_Load_Merge(m, file) ==
    IF ~file.exists THEN [ok |-> FALSE, manifest |-> m, threw |-> FALSE]
    ELSE [ok |-> TRUE, manifest |-> ManifestParse(file.lines, m),
          threw |-> FALSE]

\* A line with three delimiters whose size or time is not a number: stoll
\* throws, nothing catches it, and the process ends in std::terminate.
ManifestThrows(lines) ==
    \E i \in DOMAIN lines :
       /\ Len(lines[i]) >= 4
       /\ stoll_throws(lines[i][3]) \/ stoll_throws(lines[i][4])

\* Load: [ok, manifest, threw].  The map is cleared only when the file opens.
ManifestManager_Load(m, file) ==
    IF ~file.exists THEN [ok |-> FALSE, manifest |-> m, threw |-> FALSE]
    ELSE IF ManifestThrows(file.lines)
       THEN [ok |-> FALSE, manifest |-> EmptyMap, threw |-> TRUE]
    ELSE [ok |-> TRUE, manifest |-> ManifestParse(file.lines, EmptyMap),
          threw |-> FALSE]

HasFile(m, filepath) == filepath \in DOMAIN m

\* A manifest updated with std::map::insert, which keeps an existing entry.
UpdateFile_InsertOnly(m, filepath, meta) ==
    IF filepath \in DOMAIN m THEN m ELSE Put(m, filepath, meta)

UpdateFile(m, filepath, meta) == Put(m, filepath, meta)

(* ------------------------------ DeduplicationIndex (phase 3) ----------- *)
RECURSIVE IndexLines(_, _)
IndexLines(m, order) ==
    IF order = <<>> THEN <<>>
    ELSE LET p == Head(order) IN
         (IF p \in DOMAIN m THEN << <<p, m[p]>> >> ELSE <<>>)
             \o IndexLines(m, Tail(order))

\* An index file opened for appending.
DeduplicationIndex_Save_Append(m, file, canOpen) ==
    IF ~canOpen THEN [ok |-> FALSE, file |-> file]
    ELSE [ok |-> TRUE,
          file |-> [exists |-> TRUE,
                    lines |-> file.lines \o IndexLines(m, MapOrder)]]

DeduplicationIndex_Save(m, file, canOpen) ==
    IF ~canOpen THEN [ok |-> FALSE, file |-> file]
    ELSE [ok |-> TRUE,
          file |-> [exists |-> TRUE, lines |-> IndexLines(m, MapOrder)]]

RECURSIVE IndexParse(_, _)
IndexParse(lines, m) ==
    IF lines = <<>> THEN m
    ELSE LET line == Head(lines) IN
         IndexParse(Tail(lines),
            IF Len(line) >= 2 THEN Put(m, line[1], line[2]) ELSE m)

DeduplicationIndex_Load(m, file) ==
    IF ~file.exists THEN [ok |-> FALSE, fileHashMap |-> m]
    ELSE [ok |-> TRUE, fileHashMap |-> IndexParse(file.lines, EmptyMap)]

\* An AddFile that forgets the other entries.
AddFile_Alone(m, filepath, hash) == Put(EmptyMap, filepath, hash)

AddFile(m, filepath, hash) == Put(m, filepath, hash)

(* ------------------------------ DeduplicationStore (phase 3) ----------- *)
StorePath == Append(DestRoot, ".dedup_store")

\* Initialize: [ok, dirs].  mkParent / mkStore: CreateDirectoryA succeeds.
Initialize(dirs, mkParent, mkStore) ==
    LET withParent == IF DestRoot \in dirs THEN dirs
                      ELSE IF mkParent THEN dirs \cup {DestRoot} ELSE dirs
        parentFailed == DestRoot \notin dirs /\ ~mkParent
    IN  IF parentFailed THEN [ok |-> FALSE, dirs |-> dirs]
        ELSE IF StorePath \in withParent THEN [ok |-> TRUE, dirs |-> withParent]
        ELSE IF mkStore /\ DestRoot \in withParent
                THEN [ok |-> TRUE, dirs |-> withParent \cup {StorePath}]
                ELSE [ok |-> FALSE, dirs |-> withParent]

\* A store that never finds a blob.
ContentExists_Never(b, hash) == FALSE

\* A store that takes every blob to be there.
ContentExists_Always(b, hash) == TRUE

ContentExists(b, hash) == hash \in DOMAIN b

\* A StoreContent that does not look at what CopyFileA returned.
StoreContent_Unchecked(b, rc, content, hash, copyOk) ==
    [ok |-> TRUE, blobs |-> IF copyOk THEN Put(b, hash, content) ELSE b,
     referenceCount |-> Put(rc, hash, 1)]

\* A StoreContent that empties the store before it copies.
StoreContent_Purging(b, rc, content, hash, copyOk) ==
    IF copyOk
       THEN [ok |-> TRUE, blobs |-> Put(EmptyMap, hash, content),
             referenceCount |-> Put(rc, hash, 1)]
       ELSE [ok |-> FALSE, blobs |-> b, referenceCount |-> rc]

\* StoreContent: [ok, blobs, referenceCount].  copyOk: CopyFileA succeeds.
StoreContent(b, rc, content, hash, copyOk) ==
    IF copyOk
       THEN [ok |-> TRUE, blobs |-> Put(b, hash, content),
             referenceCount |-> Put(rc, hash, 1)]
       ELSE [ok |-> FALSE, blobs |-> b, referenceCount |-> rc]

\* A store that drops the reference.
IncrementReference_Lost(rc, hash) == rc

\* A store that sets the count of a referenced blob to 1.
IncrementReference_Reset(rc, hash) == Put(rc, hash, 1)

\* referenceCount[hash]++ : an absent key is created with 0 first.
IncrementReference(rc, hash) ==
    Put(rc, hash, (IF hash \in DOMAIN rc THEN rc[hash] ELSE 0) + 1)

GetReferenceCount(rc, hash) == IF hash \in DOMAIN rc THEN rc[hash] ELSE 0

RECURSIVE TallyReferences(_, _, _)
TallyReferences(m, order, rc) ==
    IF order = <<>> THEN rc
    ELSE LET p == Head(order) IN
         TallyReferences(m, Tail(order),
            IF p \in DOMAIN m THEN IncrementReference(rc, m[p]) ELSE rc)

\* A start that clears the counts and does not tally the index.
LoadReferenceCountsFromIndex_Cleared(m) == EmptyMap

LoadReferenceCountsFromIndex(m) == TallyReferences(m, MapOrder, EmptyMap)

(* ------------------------------ CreateDestDirectory -------------------- *)
\* [ok, dirs, created].  The volume root <<>> always exists.  mk: a
\* CreateDirectoryA whose parent exists succeeds; when the parent is missing
\* it fails with ERROR_PATH_NOT_FOUND and the parent is created first.
DirExists(dirs, path) == path = <<>> \/ path \in dirs

RECURSIVE CreateDestDirectory(_, _, _)
CreateDestDirectory(dirs, path, mk) ==
    IF DirExists(dirs, path)
       THEN [ok |-> TRUE, dirs |-> dirs, created |-> 0]
    ELSE IF DirExists(dirs, Parent(path))
       THEN IF mk THEN [ok |-> TRUE, dirs |-> dirs \cup {path}, created |-> 1]
                  ELSE [ok |-> FALSE, dirs |-> dirs, created |-> 0]
    ELSE LET up == CreateDestDirectory(dirs, Parent(path), mk) IN
         IF up.ok
            THEN LET again == CreateDestDirectory(up.dirs, path, mk) IN
                 [ok |-> again.ok, dirs |-> again.dirs,
                  created |-> up.created + again.created]
            ELSE [ok |-> FALSE, dirs |-> up.dirs, created |-> up.created]

GetRelativePath(fullPath, basePath) ==
    IF IsPrefix(basePath, fullPath)
       THEN SubSeq(fullPath, Len(basePath) + 1, Len(fullPath))
       ELSE fullPath

(* ------------------------------ ShouldCopyFile (phase 2) --------------- *)
\* A quick check that wants both the size and the time to differ.
MetadataDiffers_Both(oldMeta, fileSize, fileTime) ==
    oldMeta.size # fileSize /\ oldMeta.lastModified # fileTime

\* The quick check: oldMeta.size != fileSize || oldMeta.lastModified != fileTime.
MetadataDiffers(oldMeta, fileSize, fileTime) ==
    oldMeta.size # fileSize \/ oldMeta.lastModified # fileTime

\* [copy, currentHash, stats, hashed, class].  computed: what CalculateHash
\* returns for the file if it is called.
ShouldCopyFile(st, m, inc, relativePath, fileSize, fileTime, computed) ==
    IF ~inc
       THEN [copy |-> TRUE, currentHash |-> computed, stats |-> st,
             hashed |-> TRUE, class |-> "Full"]
    ELSE IF ~HasFile(m, relativePath)
       THEN [copy |-> TRUE, currentHash |-> computed,
             stats |-> [st EXCEPT !.filesNew = @ + 1],
             hashed |-> TRUE, class |-> "New"]
    ELSE LET oldMeta == m[relativePath] IN
         IF MetadataDiffers(oldMeta, fileSize, fileTime)
            THEN IF computed # oldMeta.hash
                    THEN [copy |-> TRUE, currentHash |-> computed,
                          stats |-> [st EXCEPT !.filesModified = @ + 1],
                          hashed |-> TRUE, class |-> "Modified"]
                    ELSE [copy |-> FALSE, currentHash |-> computed,
                          stats |-> [st EXCEPT !.filesSkipped = @ + 1],
                          hashed |-> TRUE, class |-> "Unchanged"]
            ELSE [copy |-> FALSE, currentHash |-> oldMeta.hash,
                  stats |-> [st EXCEPT !.filesSkipped = @ + 1],
                  hashed |-> FALSE, class |-> "Unchanged"]

(* ------------------------------ history -------------------------------- *)
\* The last step: its kind, the entry it was about and, for a file, how the
\* change detector classified it, whether it was hashed and how that ended,
\* the fingerprint used, whether the copy failed, and the outcome.
Op(kind, path, class, hashed, outcome, hash) ==
    [kind |-> kind, path |-> path, class |-> class, hashed |-> hashed,
     outcome |-> outcome, hash |-> hash, how |-> "ok", copyFailed |-> FALSE]

FileOp(path, class, hashed, outcome, hash, how, copyOk) ==
    [kind |-> "file", path |-> path, class |-> class, hashed |-> hashed,
     outcome |-> outcome, hash |-> hash, how |-> how, copyFailed |-> ~copyOk]

NoOp == Op("none", <<>>, "", FALSE, "", "")

\* Facts about a run: the source it saw, whether it was started without
\* --full, whether every system call it made succeeded, whether it came to
\* the walk, the directories it listed, the files whose copy into the
\* destination it attempted, those for which that copy failed and those
\* whose call of CalculateHash failed, and whether it saved its manifest /
\* index.
NewRun(src, incremental) ==
    [src |-> src, incremental |-> incremental, clean |-> TRUE,
     walked |-> FALSE, opened |-> {}, attempted |-> {}, failed |-> {},
     misread |-> {}, saved |-> FALSE]

NoVisits == [e \in FilePaths \cup DirPaths |-> 0]

\* What a run left behind, as the next run finds it.
Snapshot ==
    [valid |-> runs > 0, run |-> run, diskFile |-> diskFile, blobs |-> blobs,
     destDirs |-> destDirs, destFiles |-> destFiles, stats |-> stats,
     result |-> result,
     referenceCount |-> referenceCount, fileHashMap |-> fileHashMap,
     manifest |-> manifest]

(* ------------------------------ Init ----------------------------------- *)
Init ==
    /\ phase \in {2, 3}
    /\ srcRoot \in {"dir", "file", "missing"}
    /\ srcFiles \in InitialTrees
    /\ destDirs \in {{}, {DestRoot}}
    /\ destFiles = EmptyMap
    /\ blobs = EmptyMap
    /\ diskFile = NoFile
    /\ manifest = EmptyMap
    /\ incrementalMode = TRUE
    /\ fileHashMap = EmptyMap
    /\ referenceCount = EmptyMap
    /\ stats = ZeroStats
    /\ stack = <<>>
    /\ pc = "idle"
    /\ result = FALSE
    /\ runs = 0
    /\ edits = 0
    /\ faults = 0
    /\ lastOp = NoOp
    /\ visits = NoVisits
    /\ run = NewRun(srcFiles, TRUE)
    /\ prev = [valid |-> FALSE, run |-> NewRun(srcFiles, TRUE),
               diskFile |-> NoFile, blobs |-> EmptyMap, destDirs |-> destDirs,
               destFiles |-> EmptyMap, stats |-> ZeroStats,
               result |-> FALSE, referenceCount |-> EmptyMap,
               fileHashMap |-> EmptyMap, manifest |-> EmptyMap]

(* ------------------------------ the walk ------------------------------- *)
Top == stack[Len(stack)]

Frame(rel) == [sourceDir |-> SourceRoot \o rel, destDir |-> DestRoot \o rel,
               pos |-> 0]

\* The entries FindFirstFileA / FindNextFileA yield for a source directory,
\* "." and ".." left out.
Listing(sourceDir) ==
    LET rel == GetRelativePath(sourceDir, SourceRoot)
        Present(n) == n \in DirNames \/ Append(rel, n) \in DOMAIN srcFiles
    IN  SelectSeq(DirEntries(rel), Present)

Pop == SubSeq(stack, 1, Len(stack) - 1)

Advance == [stack EXCEPT ![Len(stack)].pos = @ + 1]

\* The number of the calls in fs (each TRUE for a call that failed).
Failed(fs) == Cardinality({i \in DOMAIN fs : fs[i]})

(* ------------------------------ StartBackup ---------------------------- *)
\* phase3.cpp StartBackup up to the call of BackupDirectory, in a new process.
DeduplicationBackup_StartBackup ==
    /\ phase = 3
    /\ pc \in {"idle", "done", "aborted"}
    /\ runs < MaxRuns
    /\ \E mkParent \in BOOLEAN, mkStore \in BOOLEAN :
         LET init == Initialize(destDirs, mkParent, mkStore)
             ld == DeduplicationIndex_Load(EmptyMap, diskFile)
             fatal == ~init.ok \/ srcRoot # "dir"
             failed == Failed(<<~mkParent, ~mkStore>>)
         IN  /\ ~mkParent => DestRoot \notin destDirs
             /\ ~mkStore => mkParent /\ StorePath \notin destDirs
             /\ faults + failed <= MaxFaults
             /\ faults' = faults + failed
             /\ destDirs' = init.dirs
             /\ fileHashMap' = IF init.ok THEN ld.fileHashMap ELSE EmptyMap
             /\ referenceCount' =
                   IF init.ok /\ ld.ok
                      THEN LoadReferenceCountsFromIndex(ld.fileHashMap)
                      ELSE EmptyMap
             /\ stack' = IF fatal THEN <<>> ELSE <<Frame(<<>>)>>
             /\ pc' = IF fatal THEN "done" ELSE "walking"
             /\ run' = [NewRun(srcFiles, TRUE) EXCEPT !.clean = init.ok,
                                                      !.walked = ~fatal]
             /\ lastOp' = Op("start", <<>>, "", FALSE,
                             IF fatal THEN "fatal" ELSE "ok", "")
    /\ stats' = ZeroStats
    /\ result' = FALSE
    /\ runs' = runs + 1
    /\ visits' = NoVisits
    /\ prev' = Snapshot
    /\ UNCHANGED <<phase, srcRoot, srcFiles, destFiles, blobs, diskFile,
                   manifest, incrementalMode, edits>>

\* A mode that forgets that --full was given.
IncrementalMode_IgnoringFull(hasManifest, incremental) == hasManifest

\* phase2.cpp StartBackup: the mode after manifest.Load().
IncrementalMode(hasManifest, incremental) == hasManifest /\ incremental

\* phase2.cpp StartBackup up to the call of BackupDirectory, in a new process
\* started with or without --full.
IncrementalBackup_StartBackup ==
    /\ phase = 2
    /\ pc \in {"idle", "done", "aborted"}
    /\ runs < MaxRuns
    /\ \E incremental \in BOOLEAN :
         LET ld == ManifestManager_Load(EmptyMap, diskFile)
             fatal == srcRoot # "dir"
         IN  /\ manifest' = ld.manifest
             /\ incrementalMode' = IncrementalMode(ld.ok, incremental)
             /\ stack' = IF fatal \/ ld.threw THEN <<>> ELSE <<Frame(<<>>)>>
             /\ pc' = IF ld.threw THEN "aborted"
                      ELSE IF fatal THEN "done" ELSE "walking"
             /\ run' = [NewRun(srcFiles, incremental) EXCEPT
                          !.clean = ~ld.threw,
                          !.walked = ~fatal /\ ~ld.threw]
             /\ lastOp' = Op("start", <<>>, "", FALSE,
                             IF fatal THEN "fatal" ELSE "ok", "")
    /\ stats' = ZeroStats
    /\ result' = FALSE
    /\ runs' = runs + 1
    /\ visits' = NoVisits
    /\ prev' = Snapshot
    /\ UNCHANGED <<phase, srcRoot, srcFiles, destDirs, destFiles, blobs,
                   diskFile, fileHashMap, referenceCount, edits, faults>>

(* ------------------------------ BackupDirectory ------------------------ *)
\* The head of BackupDirectory: FindFirstFileA, then CreateDestDirectory.
BackupDirectory_Enter ==
    /\ pc = "walking"
    /\ stack # <<>>
    /\ Top.pos = 0
    /\ \E findOk \in BOOLEAN, mk \in BOOLEAN :
         LET cd == CreateDestDirectory(destDirs, Top.destDir, mk)
             opened == findOk /\ cd.ok
             rel == GetRelativePath(Top.sourceDir, SourceRoot)
             failed == Failed(<<~findOk, ~mk>>)
         IN  /\ ~mk => findOk /\ ~DirExists(destDirs, Top.destDir)
             /\ faults + failed <= MaxFaults
             /\ faults' = faults + failed
             /\ destDirs' = IF findOk THEN cd.dirs ELSE destDirs
             /\ stats' =
                  IF ~findOk THEN [stats EXCEPT !.errors = @ + 1]
                  ELSE IF ~cd.ok
                     THEN [stats EXCEPT !.errors = @ + 1,
                                        !.directoriesCreated = @ + cd.created]
                     ELSE [stats EXCEPT !.directoriesCreated = @ + cd.created]
             /\ stack' = IF opened THEN Advance ELSE Pop
             /\ result' = IF ~opened /\ Len(stack) = 1 THEN FALSE ELSE result
             /\ run' = [run EXCEPT
                          !.clean = @ /\ opened,
                          !.opened = IF opened THEN @ \cup {rel} ELSE @]
             /\ lastOp' = Op("enter", rel, "", FALSE,
                             IF opened THEN "ok" ELSE "error", "")
    /\ UNCHANGED <<phase, srcRoot, srcFiles, destFiles, blobs, diskFile,
                   manifest, incrementalMode, fileHashMap, referenceCount,
                   pc, runs, edits, visits, prev>>

\* The loop body for an entry that is a directory: the recursive call.
BackupDirectory_Descend ==
    /\ pc = "walking"
    /\ stack # <<>>
    /\ Top.pos \in 1..Len(Listing(Top.sourceDir))
    /\ LET fileName == Listing(Top.sourceDir)[Top.pos]
           sourceFullPath == Append(Top.sourceDir, fileName)
           relativePath == GetRelativePath(sourceFullPath, SourceRoot)
       IN  /\ fileName \in DirNames
           /\ stats' = [stats EXCEPT !.filesProcessed = @ + 1]
           /\ stack' = Append(Advance, Frame(relativePath))
           /\ visits' = [visits EXCEPT ![relativePath] = @ + 1]
           /\ lastOp' = Op("dir", relativePath, "", FALSE, "", "")
    /\ UNCHANGED <<phase, srcRoot, srcFiles, destDirs, destFiles, blobs,
                   diskFile, manifest, incrementalMode, fileHashMap,
                   referenceCount, pc, result, runs, edits, faults, run,
                   prev>>

\* FindNextFileA has no more entries: FindClose and return true.
BackupDirectory_Leave ==
    /\ pc = "walking"
    /\ stack # <<>>
    /\ Top.pos > Len(Listing(Top.sourceDir))
    /\ stack' = Pop
    /\ result' = IF Len(stack) = 1 THEN TRUE ELSE result
    /\ lastOp' = Op("leave", GetRelativePath(Top.sourceDir, SourceRoot), "",
                    FALSE, "", "")
    /\ UNCHANGED <<phase, srcRoot, srcFiles, destDirs, destFiles, blobs,
                   diskFile, manifest, incrementalMode, fileHashMap,
                   referenceCount, stats, pc, runs, edits, faults, visits,
                   run, prev>>

\* Statistics that leave a failed store out.
FileStats_StoreFailureUncounted(st, outcome, fileSize) ==
    CASE outcome = "hashfail" -> [st EXCEPT !.errors = @ + 1]
      [] outcome = "dedup" ->
           [st EXCEPT !.filesDeduped = @ + 1,
                      !.bytesDeduplicated = @ + fileSize]
      [] outcome = "stored" ->
           [st EXCEPT !.filesCopied = @ + 1, !.bytesCopied = @ + fileSize]
      [] outcome = "storefail" -> st

\* phase3.cpp: what the loop body for a file adds to the statistics after
\* filesProcessed and totalBytes.
FileStats(st, outcome, fileSize) ==
    CASE outcome = "hashfail" -> [st EXCEPT !.errors = @ + 1]
      [] outcome = "dedup" ->
           [st EXCEPT !.filesDeduped = @ + 1,
                      !.bytesDeduplicated = @ + fileSize]
      [] outcome = "stored" ->
           [st EXCEPT !.filesCopied = @ + 1, !.bytesCopied = @ + fileSize]
      [] outcome = "storefail" -> [st EXCEPT !.errors = @ + 1]

\* phase3.cpp: the loop body for an entry that is a file.
DeduplicationBackup_ProcessFile ==
    /\ phase = 3
    /\ pc = "walking"
    /\ stack # <<>>
    /\ Top.pos \in 1..Len(Listing(Top.sourceDir))
    /\ Listing(Top.sourceDir)[Top.pos] \notin DirNames
    /\ \E how \in HashOutcomes, copyOk \in BOOLEAN :
         LET fileName == Listing(Top.sourceDir)[Top.pos]
             sourceFullPath == Append(Top.sourceDir, fileName)
             relativePath == GetRelativePath(sourceFullPath, SourceRoot)
             content == srcFiles[relativePath].content
             fileSize == SizeOf(content)
             fileHash == CalculateHash(content, how)
             st == [stats EXCEPT !.filesProcessed = @ + 1,
                                 !.totalBytes = @ + fileSize]
             exists == ContentExists(blobs, fileHash)
             sc == StoreContent(blobs, referenceCount, content, fileHash, copyOk)
             outcome == IF fileHash = "" THEN "hashfail"
                        ELSE IF exists THEN "dedup"
                        ELSE IF sc.ok THEN "stored" ELSE "storefail"
             failed == Failed(<<how # "ok", ~copyOk>>)
         IN  /\ ~copyOk => fileHash # "" /\ ~exists
             /\ faults + failed <= MaxFaults
             /\ faults' = faults + failed
             /\ stats' = FileStats(st, outcome, fileSize)
             /\ blobs' = IF outcome = "stored" THEN sc.blobs ELSE blobs
             /\ referenceCount' =
                  CASE outcome = "dedup" ->
                         IncrementReference(referenceCount, fileHash)
                    [] outcome = "stored" -> sc.referenceCount
                    [] OTHER -> referenceCount
             /\ fileHashMap' =
                  IF outcome \in {"dedup", "stored"}
                     THEN AddFile(fileHashMap, relativePath, fileHash)
                     ELSE fileHashMap
             /\ visits' = [visits EXCEPT ![relativePath] = @ + 1]
             /\ run' = [run EXCEPT
                  !.clean = @ /\ how = "ok" /\ outcome # "storefail",
                  !.attempted = IF outcome \in {"stored", "storefail"}
                                   THEN @ \cup {relativePath} ELSE @,
                  !.failed = IF outcome = "storefail"
                                THEN @ \cup {relativePath} ELSE @,
                  !.misread = IF how # "ok"
                                 THEN @ \cup {relativePath} ELSE @]
             /\ lastOp' = FileOp(relativePath, "", TRUE, outcome, fileHash,
                                 how, copyOk)
    /\ stack' = Advance
    /\ UNCHANGED <<phase, srcRoot, srcFiles, destDirs, destFiles, diskFile,
                   manifest, incrementalMode, pc, result, runs, edits, prev>>

\* phase2.cpp: the loop body for an entry that is a file.
IncrementalBackup_ProcessFile ==
    /\ phase = 2
    /\ pc = "walking"
    /\ stack # <<>>
    /\ Top.pos \in 1..Len(Listing(Top.sourceDir))
    /\ Listing(Top.sourceDir)[Top.pos] \notin DirNames
    /\ \E how \in HashOutcomes, copyOk \in BOOLEAN :
         LET fileName == Listing(Top.sourceDir)[Top.pos]
             sourceFullPath == Append(Top.sourceDir, fileName)
             destFullPath == Append(Top.destDir, fileName)
             relativePath == GetRelativePath(sourceFullPath, SourceRoot)
             content == srcFiles[relativePath].content
             fileSize == SizeOf(content)
             fileTime == srcFiles[relativePath].mtime
             st == [stats EXCEPT !.filesProcessed = @ + 1,
                                 !.totalBytes = @ + fileSize]
             d == ShouldCopyFile(st, manifest, incrementalMode, relativePath,
                                 fileSize, fileTime, CalculateHash(content, how))
             meta == [hash |-> d.currentHash, size |-> fileSize,
                      lastModified |-> fileTime]
             outcome == IF ~d.copy THEN "skipped"
                        ELSE IF copyOk THEN "copied" ELSE "copyfail"
             failed == Failed(<<how # "ok", ~copyOk>>)
         IN  /\ how # "ok" => d.hashed
             /\ ~copyOk => d.copy
             /\ faults + failed <= MaxFaults
             /\ faults' = faults + failed
             /\ stats' =
                  CASE outcome = "skipped" -> d.stats
                    [] outcome = "copied" ->
                         [d.stats EXCEPT !.filesCopied = @ + 1,
                                         !.bytesCopied = @ + fileSize]
                    [] outcome = "copyfail" -> [d.stats EXCEPT !.errors = @ + 1]
             /\ destFiles' = IF outcome = "copied"
                                THEN Put(destFiles, destFullPath, content)
                                ELSE destFiles
             /\ manifest' = IF outcome = "copyfail" THEN manifest
                            ELSE UpdateFile(manifest, relativePath, meta)
             /\ visits' = [visits EXCEPT ![relativePath] = @ + 1]
             /\ run' = [run EXCEPT
                  !.clean = @ /\ (d.hashed => how = "ok")
                              /\ outcome # "copyfail",
                  !.attempted = IF d.copy THEN @ \cup {relativePath} ELSE @,
                  !.failed = IF outcome = "copyfail"
                                THEN @ \cup {relativePath} ELSE @,
                  !.misread = IF how # "ok"
                                 THEN @ \cup {relativePath} ELSE @]
             /\ lastOp' = FileOp(relativePath, d.class, d.hashed, outcome,
                                 d.currentHash, how, copyOk)
    /\ stack' = Advance
    /\ UNCHANGED <<phase, srcRoot, srcFiles, destDirs, blobs, diskFile,
                   incrementalMode, fileHashMap, referenceCount, pc, result,
                   runs, edits, prev>>

(* ------------------------------ the end of StartBackup ----------------- *)
\* A StartBackup that also fails when the save failed.
StartBackup_Return_Saved(walk, saved) == walk /\ saved

\* What StartBackup returns after the walk: the result of the root call of
\* BackupDirectory; a failed Save is a warning only.
StartBackup_Return(walk, saved) == walk

\* The file can be created only in a directory that exists.
DeduplicationBackup_SaveIndex ==
    /\ phase = 3
    /\ pc = "walking"
    /\ stack = <<>>
    /\ \E canOpen \in BOOLEAN :
         LET sv == DeduplicationIndex_Save(fileHashMap, diskFile,
                                           canOpen /\ DestRoot \in destDirs)
         IN  /\ ~canOpen => DestRoot \in destDirs /\ faults < MaxFaults
             /\ faults' = IF canOpen THEN faults ELSE faults + 1
             /\ diskFile' = sv.file
             /\ run' = [run EXCEPT !.clean = @ /\ sv.ok, !.saved = sv.ok]
             /\ result' = StartBackup_Return(result, sv.ok)
             /\ lastOp' = Op("save", <<>>, "", FALSE,
                             IF sv.ok THEN "ok" ELSE "error", "")
    /\ pc' = "done"
    /\ UNCHANGED <<phase, srcRoot, srcFiles, destDirs, destFiles, blobs,
                   manifest, incrementalMode, fileHashMap, referenceCount,
                   stats, stack, runs, edits, visits, prev>>

IncrementalBackup_SaveManifest ==
    /\ phase = 2
    /\ pc = "walking"
    /\ stack = <<>>
    /\ \E canOpen \in BOOLEAN :
         LET sv == ManifestManager_Save(manifest, diskFile,
                                        canOpen /\ DestRoot \in destDirs)
         IN  /\ ~canOpen => DestRoot \in destDirs /\ faults < MaxFaults
             /\ faults' = IF canOpen THEN faults ELSE faults + 1
             /\ diskFile' = sv.file
             /\ run' = [run EXCEPT !.clean = @ /\ sv.ok, !.saved = sv.ok]
             /\ result' = StartBackup_Return(result, sv.ok)
             /\ lastOp' = Op("save", <<>>, "", FALSE,
                             IF sv.ok THEN "ok" ELSE "error", "")
    /\ pc' = "done"
    /\ UNCHANGED <<phase, srcRoot, srcFiles, destDirs, destFiles, blobs,
                   manifest, incrementalMode, fileHashMap, referenceCount,
                   stats, stack, runs, edits, visits, prev>>

(* ------------------------------ the environment ------------------------ *)
\* Between two runs a source file is deleted, touched, or written or created
\* with other content; a write may leave the last-write time as it was.
Later(t) == IF t < MaxTime THEN t + 1 ELSE t

EditSource ==
    /\ pc = "done"
    /\ srcRoot = "dir"
    /\ runs < MaxRuns
    /\ edits < MaxEdits
    /\ \E p \in FilePaths :
         \/ /\ p \in DOMAIN srcFiles
            /\ srcFiles' = [q \in DOMAIN srcFiles \ {p} |-> srcFiles[q]]
         \/ /\ p \in DOMAIN srcFiles
            /\ \E c \in Contents, t \in {srcFiles[p].mtime,
                                        Later(srcFiles[p].mtime)} :
                 /\ [content |-> c, mtime |-> t] # srcFiles[p]
                 /\ srcFiles' = Put(srcFiles, p, [content |-> c, mtime |-> t])
         \/ /\ p \notin DOMAIN srcFiles
            /\ \E c \in Contents, t \in 1..MaxTime :
                 srcFiles' = Put(srcFiles, p, [content |-> c, mtime |-> t])
    /\ edits' = edits + 1
    /\ lastOp' = Op("edit", <<>>, "", FALSE, "", "")
    /\ UNCHANGED <<phase, srcRoot, destDirs, destFiles, blobs, diskFile,
                   manifest, incrementalMode, fileHashMap, referenceCount,
                   stats, stack, pc, result, runs, faults, visits, run, prev>>

Next ==
    \/ DeduplicationBackup_StartBackup
    \/ IncrementalBackup_StartBackup
    \/ BackupDirectory_Enter
    \/ BackupDirectory_Descend
    \/ BackupDirectory_Leave
    \/ DeduplicationBackup_ProcessFile
    \/ IncrementalBackup_ProcessFile
    \/ DeduplicationBackup_SaveIndex
    \/ IncrementalBackup_SaveManifest
    \/ EditSource

Spec == Init /\ [][Next]_vars

(***************************************************************************)
(* Properties                                                              *)
(***************************************************************************)
\* The files of the tree src whose content is c, and the contents in src.
FilesWith(src, c) == {p \in DOMAIN src : src[p].content = c}

ContentsOf(src) == {src[p].content : p \in DOMAIN src}

\* A run has ended that found the destination without blobs and index.
EndOfRunOnEmptyDestination ==
    /\ pc = "done"
    /\ run.walked
    /\ prev.blobs = EmptyMap
    /\ prev.destFiles = EmptyMap
    /\ ~prev.diskFile.exists

\* A run has ended whose source tree is the one the run before it walked;
\* neither run was started with --full.
EndOfSecondRunOnSameTree ==
    /\ pc = "done"
    /\ prev.valid
    /\ prev.run.walked
    /\ run.walked
    /\ run.src = prev.run.src
    /\ prev.run.incremental
    /\ run.incremental

(* ------------------------------ C1 ------------------------------------- *)
\* C1: at the end of an error-free DeduplicationBackup run on an empty
\* destination, two distinct source paths that (alone) share a content have
\* one blob under the shared fingerprint, its reference count is 2, both
\* index entries carry it; the run copied one file per distinct content and
\* deduplicated the others, so filesCopied = 1 and filesDeduped = 1 for the
\* tree of the two files.
C1_Deduplication ==
    (phase = 3 /\ EndOfRunOnEmptyDestination /\ run.clean) =>
       /\ \A p, q \in DOMAIN run.src :
            LET c == run.src[p].content
                f == Sha256(c)
            IN  (p # q /\ FilesWith(run.src, c) = {p, q}) =>
                  /\ f \in DOMAIN blobs
                  /\ blobs[f] = c
                  /\ Cardinality({h \in DOMAIN blobs : blobs[h] = c}) = 1
                  /\ GetReferenceCount(referenceCount, f) = 2
                  /\ {p, q} \subseteq DOMAIN fileHashMap
                  /\ fileHashMap[p] = f
                  /\ fileHashMap[q] = f
                  /\ DOMAIN run.src = {p, q} =>
                        stats.filesCopied = 1 /\ stats.filesDeduped = 1
       /\ stats.filesCopied = Cardinality(ContentsOf(run.src))
       /\ stats.filesCopied + stats.filesDeduped = Cardinality(DOMAIN run.src)

C1_Witness ==
    /\ phase = 3
    /\ EndOfRunOnEmptyDestination
    /\ run.clean
    /\ DOMAIN run.src = {<<"a.txt">>, <<"b.txt">>}
    /\ run.src[<<"a.txt">>].content = run.src[<<"b.txt">>].content
    /\ GetReferenceCount(referenceCount, Sha256("hello")) = 2
    /\ stats.filesDeduped = 1

(* ------------------------------ C2 ------------------------------------- *)
\* C2 as written: the second of two error-free runs on an unchanged tree
\* classifies every file Unchanged (filesSkipped = number of files), stores
\* no blob, copies no file and reports zero bytes copied.
C2_AllUnchanged ==
    (EndOfSecondRunOnSameTree /\ prev.run.clean /\ run.clean) =>
       /\ stats.filesSkipped = Cardinality(DOMAIN run.src)
       /\ stats.filesCopied = 0
       /\ stats.bytesCopied = 0
       /\ run.attempted = {}
       /\ blobs = prev.blobs

\* C2 as amended: the second of two error-free runs on an unchanged tree
\* stores no blob, copies no file and reports zero bytes copied; under
\* IncrementalBackup every file is classified Unchanged; DeduplicationBackup
\* has no change detector: it hashes every file and counts every file as
\* deduplicated, filesSkipped staying 0.
C2_NoWorkOnSecondRun ==
    (EndOfSecondRunOnSameTree /\ prev.run.clean /\ run.clean) =>
       /\ stats.filesCopied = 0
       /\ stats.bytesCopied = 0
       /\ run.attempted = {}
       /\ blobs = prev.blobs
       /\ destFiles = prev.destFiles
       /\ phase = 2 =>
            /\ stats.filesSkipped = Cardinality(DOMAIN run.src)
            /\ stats.filesNew = 0
            /\ stats.filesModified = 0
       /\ phase = 3 =>
            /\ stats.filesDeduped = Cardinality(DOMAIN run.src)
            /\ stats.filesSkipped = 0

C2_Witness ==
    /\ EndOfSecondRunOnSameTree
    /\ prev.run.clean
    /\ run.clean
    /\ phase = 3
    /\ stats.filesDeduped = 3
    /\ stats.filesProcessed = 4

(* ------------------------------ C3 ------------------------------------- *)
\* C3 as written: after the second of two runs on an unchanged tree the
\* stored blobs (mirrored files) and the saved manifest / index file are
\* what they were after the first run.
C3_SameStateAfterSecondRun ==
    EndOfSecondRunOnSameTree =>
       /\ blobs = prev.blobs
       /\ destFiles = prev.destFiles
       /\ diskFile = prev.diskFile

\* C3 as amended: the same, when both runs were free of errors (no failed
\* system call, the manifest / index saved).
C3_SameStateAfterCleanRuns ==
    (EndOfSecondRunOnSameTree /\ prev.run.clean /\ run.clean) =>
       /\ blobs = prev.blobs
       /\ destFiles = prev.destFiles
       /\ diskFile = prev.diskFile

C3_Witness ==
    /\ EndOfSecondRunOnSameTree
    /\ prev.run.clean
    /\ run.clean
    /\ phase = 2
    /\ diskFile.exists
    /\ Len(diskFile.lines) = 3
    /\ DOMAIN destFiles # {}

(* ------------------------------ C4 ------------------------------------- *)
\* C4: after an error-free first run on a tree in which a.txt and b.txt
\* (alone) share a content, a.txt is given a content that has no blob; the
\* next error-free DeduplicationBackup run stores a blob for the new
\* fingerprint, the index entry of a.txt carries it, and the reference
\* count of the old fingerprint is 1 at the end of that run.
C4_ScenarioC ==
    LET a == <<"a.txt">>
        b == <<"b.txt">>
        old == prev.run.src
        new == run.src
    IN  ( /\ phase = 3
          /\ pc = "done"
          /\ prev.valid /\ prev.run.walked /\ prev.run.clean
          /\ run.walked /\ run.clean
          /\ {a, b} \subseteq DOMAIN old
          /\ FilesWith(old, old[a].content) = {a, b}
          /\ DOMAIN new = DOMAIN old
          /\ \A p \in DOMAIN old \ {a} : new[p] = old[p]
          /\ Sha256(new[a].content) \notin DOMAIN prev.blobs ) =>
            /\ Sha256(new[a].content) \in DOMAIN blobs
            /\ a \in run.attempted
            /\ fileHashMap[a] = Sha256(new[a].content)
            /\ GetReferenceCount(referenceCount, Sha256(old[a].content)) = 1

(* ------------------------------ C5 ------------------------------------- *)
\* C5: a run whose source root is missing or is not a directory (and in
\* which no system call fails) fails without touching the destination: no
\* directory is created (the store directory included), nothing is copied,
\* no entry is processed and no manifest / index file is written.
C5_ScenarioD ==
    (pc = "done" /\ runs > 0 /\ srcRoot # "dir" /\ run.clean) =>
       /\ ~result
       /\ destDirs = prev.destDirs
       /\ destFiles = prev.destFiles
       /\ blobs = prev.blobs
       /\ diskFile = prev.diskFile
       /\ visits = NoVisits
       /\ stats = ZeroStats

(* ------------------------------ steps ---------------------------------- *)
\* This step is the loop body of BackupDirectory for a file.
FileStep == pc = "walking" /\ lastOp'.kind = "file" /\ visits' # visits

\* This step is the head of BackupDirectory.
EnterStep == pc = "walking" /\ lastOp'.kind = "enter" /\ stack' # stack

Bump(new, old) == IF new = old + 1 THEN 1 ELSE IF new = old THEN 0 ELSE 2

(* ------------------------------ C6 ------------------------------------- *)
\* C6: in incremental mode ShouldCopyFile classifies a file New, with the
\* fingerprint it computes, iff its path is not in the manifest; Unchanged
\* with the manifest's fingerprint and without hashing iff the path is in
\* the manifest with this size and this time; otherwise it hashes the file
\* and classifies it Unchanged iff the fingerprint is the manifest's, else
\* Modified.  Exactly one of filesNew, filesModified, filesSkipped grows, by
\* one.
C6_ThreeWayDecision ==
    [][ (phase = 2 /\ incrementalMode /\ FileStep) =>
          LET p == lastOp'.path
              op == lastOp'
              fileSize == SizeOf(srcFiles[p].content)
              fileTime == srcFiles[p].mtime
              present == p \in DOMAIN manifest
              same == /\ present
                      /\ manifest[p].size = fileSize
                      /\ manifest[p].lastModified = fileTime
              computed == CalculateHash(srcFiles[p].content, op.how)
          IN  /\ op.class \in {"New", "Modified", "Unchanged"}
              /\ op.class = "New" <=> ~present
              /\ ~present => op.hashed /\ op.hash = computed
              /\ (op.class = "Unchanged" /\ ~op.hashed) <=> same
              /\ same => op.hash = manifest[p].hash
              /\ (present /\ ~same) =>
                    /\ op.hashed
                    /\ op.hash = computed
                    /\ op.class = "Unchanged" <=> computed = manifest[p].hash
                    /\ op.class = "Modified" <=> computed # manifest[p].hash
              /\ Bump(stats'.filesNew, stats.filesNew)
                    = IF op.class = "New" THEN 1 ELSE 0
              /\ Bump(stats'.filesModified, stats.filesModified)
                    = IF op.class = "Modified" THEN 1 ELSE 0
              /\ Bump(stats'.filesSkipped, stats.filesSkipped)
                    = IF op.class = "Unchanged" THEN 1 ELSE 0
      ]_vars

C6_Witness ==
    /\ phase = 2
    /\ incrementalMode
    /\ lastOp.kind = "file"
    /\ lastOp.class = "Modified"
    /\ lastOp.hashed
    /\ stats.filesModified = 1

(* ------------------------------ C7 ------------------------------------- *)
\* C7: in incremental mode, for a file whose manifest entry has another
\* size or time but the fingerprint of the file's content, the fingerprint
\* is computed again, the file is classified Unchanged, nothing is copied
\* (filesCopied, bytesCopied and the mirrored files stay as they are) and
\* the manifest entry is rewritten with the same fingerprint and the
\* current size and time.
C7_MetadataDrift ==
    [][ ( /\ phase = 2 /\ incrementalMode /\ FileStep
          /\ lastOp'.path \in DOMAIN manifest
          /\ lastOp'.how = "ok"
          /\ LET p == lastOp'.path IN
               /\ manifest[p].hash = Sha256(srcFiles[p].content)
               /\ \/ manifest[p].size # SizeOf(srcFiles[p].content)
                  \/ manifest[p].lastModified # srcFiles[p].mtime ) =>
          LET p == lastOp'.path IN
            /\ lastOp'.hashed
            /\ lastOp'.class = "Unchanged"
            /\ stats'.filesCopied = stats.filesCopied
            /\ stats'.bytesCopied = stats.bytesCopied
            /\ stats'.errors = stats.errors
            /\ stats'.filesSkipped = stats.filesSkipped + 1
            /\ destFiles' = destFiles
            /\ run'.attempted = run.attempted
            /\ manifest' = [manifest EXCEPT ![p] =
                              [hash |-> manifest[p].hash,
                               size |-> SizeOf(srcFiles[p].content),
                               lastModified |-> srcFiles[p].mtime]]
            /\ manifest'[p] # manifest[p]
      ]_vars

C7_Witness ==
    /\ phase = 2
    /\ incrementalMode
    /\ lastOp.kind = "file"
    /\ lastOp.class = "Unchanged"
    /\ lastOp.hashed
    /\ lastOp.how = "ok"
    /\ manifest[lastOp.path].lastModified = 2
    /\ manifest[lastOp.path].hash = Sha256(srcFiles[lastOp.path].content)

(* ------------------------------ C8 ------------------------------------- *)
\* The entries of the tree src that lie in a directory of the set opened.
EntriesIn(src, opened) ==
    {e \in DOMAIN src \cup DirPaths : Parent(e) \in opened}

\* This step met a per-entry failure: the head of BackupDirectory failed, or
\* CalculateHash returned "", or the store / copy failed.
EntryFailure ==
    \/ EnterStep /\ lastOp'.outcome = "error"
    \/ FileStep /\ lastOp'.hashed /\ lastOp'.hash = ""
    \/ FileStep /\ lastOp'.copyFailed

\* C8: in a run whose source root is valid, every step that meets a
\* per-entry failure (a directory that cannot be listed or whose destination
\* cannot be created, a failed hash, a failed store / copy) adds one to the
\* error counter, leaves the destination files, the blobs and the manifest /
\* index as they were and goes on with the walk; no entry is processed twice,
\* and when the walk has ended every entry of every directory that could be
\* listed has been processed exactly once and no other entry has.
C8_BestEffortWalk ==
    [][ /\ EntryFailure =>
             /\ stats'.errors = stats.errors + 1
             /\ destFiles' = destFiles
             /\ blobs' = blobs
             /\ manifest' = manifest
             /\ fileHashMap' = fileHashMap
             /\ pc' = "walking"
        /\ \A e \in DOMAIN visits' : visits'[e] <= 1
        /\ (pc = "walking" /\ pc' = "done") =>
             \A e \in DOMAIN visits' :
                visits'[e] = IF e \in EntriesIn(run.src, run'.opened)
                                THEN 1 ELSE 0
      ]_vars

(* ------------------------------ C9 ------------------------------------- *)
\* This step is the loop body for a file whose store / copy failed: one
\* error is counted, and the manifest / index, the destination files and the
\* blobs are left as they were.
StoreFailureStep ==
    (FileStep /\ lastOp'.copyFailed) =>
        /\ stats'.errors = stats.errors + 1
        /\ manifest' = manifest
        /\ fileHashMap' = fileHashMap
        /\ destFiles' = destFiles
        /\ blobs' = blobs
        /\ lastOp'.path \in run'.failed

\* An error-free run has ended whose source tree is the one the run before
\* it walked, and in that run the store / copy of some file failed.
EndOfRunAfterStoreFailure ==
    /\ pc = "done"
    /\ prev.valid
    /\ run.walked
    /\ run.clean
    /\ run.src = prev.run.src
    /\ prev.run.failed # {}

\* The change detector of this run, working on the manifest the run before
\* it left on the disk, finds the file at path p unchanged.
FoundUnchanged(p) ==
    LET m == ManifestManager_Load(EmptyMap, prev.diskFile).manifest
        c == run.src[p].content
    IN  ~ShouldCopyFile(ZeroStats, m, incrementalMode, p, SizeOf(c),
                        run.src[p].mtime, Sha256(c)).copy

\* C9 as the specification states it: a failed store / copy is one error
\* and leaves the entry of the path alone, and the next run on the same
\* source attempts to store / copy that file again.
C9_RetriedByNextRun ==
    /\ [][StoreFailureStep]_vars
    /\ [](EndOfRunAfterStoreFailure =>
             \A p \in prev.run.failed : p \in run.attempted)

\* C9, amended: a failed store / copy is one error and leaves the entry of
\* the path, the destination files and the blobs alone; the next error-free
\* run on the same source processes the file again: IncrementalBackup
\* attempts the copy unless its change detector finds the file unchanged
\* against the manifest entry the path had before (the size and the time, or
\* the fingerprint, of the entry are those of the file), and
\* DeduplicationBackup attempts the store unless a blob of the content is
\* there by then, and in either case leaves the path in the index with the
\* fingerprint of its content.
C9_ProcessedAgainByNextRun ==
    /\ [][StoreFailureStep]_vars
    /\ [](EndOfRunAfterStoreFailure =>
             \A p \in prev.run.failed :
                LET h == Sha256(run.src[p].content)
                IN  IF phase = 2
                       THEN \/ p \in run.attempted
                            \/ FoundUnchanged(p)
                       ELSE /\ \/ p \in run.attempted
                               \/ ContentExists(prev.blobs, h)
                               \/ \E q \in run.attempted \ {p} :
                                     run.src[q].content = run.src[p].content
                            /\ ContentExists(blobs, h)
                            /\ HasFile(fileHashMap, p)
                            /\ fileHashMap[p] = h)

\* The store / copy of a file failed in one run, and the next run, on the
\* same source and error-free, has attempted it again.
C9_Witness ==
    /\ EndOfRunAfterStoreFailure
    /\ \E p \in prev.run.failed :
          /\ p \in run.attempted
          /\ p \notin DOMAIN prev.fileHashMap
          /\ p \notin DOMAIN prev.manifest
          /\ prev.stats.errors = 1

(* ------------------------------ C10 ------------------------------------ *)
\* C10: whenever CalculateHash returns "" for a file, the loop body counts
\* one error, attempts no copy and no store, and writes no entry into the
\* manifest or the index; no entry of the manifest or the index ever has an
\* empty fingerprint.
C10_HashFailure ==
    /\ [][ (FileStep /\ lastOp'.hashed /\ lastOp'.hash = "") =>
              /\ stats'.errors = stats.errors + 1
              /\ run'.attempted = run.attempted
              /\ destFiles' = destFiles
              /\ blobs' = blobs
              /\ manifest' = manifest
              /\ fileHashMap' = fileHashMap
         ]_vars
    /\ [](/\ \A p \in DOMAIN manifest : manifest[p].hash # ""
          /\ \A p \in DOMAIN fileHashMap : fileHashMap[p] # "")

(* ------------------------------ C11 ------------------------------------ *)
\* C11 as the specification states it: StartBackup returns failure exactly
\* when the source root does not exist or is not a directory.
C11_FailsOnlyOnSourceRoot ==
    pc = "done" => (result <=> srcRoot = "dir")

\* C11, amended: StartBackup returns success exactly when the source root is
\* a directory, the store could be initialised (DeduplicationBackup), and
\* the root call of BackupDirectory could list the source root and create
\* the destination root; errors below the root and a failed save of the
\* manifest / index do not change what it returns.
C11_RunOutcome ==
    pc = "done" =>
       (result <=> /\ srcRoot = "dir"
                   /\ phase = 3 => StorePath \in destDirs
                   /\ <<>> \in run.opened)

\* A run has returned success although an entry failed or although
\* the save of the manifest / index failed.
C11_Witness ==
    /\ pc = "done"
    /\ result
    /\ stats.errors > 0 \/ ~run.saved

(* ------------------------------ C12 ------------------------------------ *)
\* Maps an object may hold before Load is called on it.
StaleManifest ==
    [p \in FilePaths |-> [hash |-> "stale", size |-> 0, lastModified |-> 0]]

StaleIndex == [p \in FilePaths |-> "stale"]

\* C12: at the end of a run, Save of the manifest (of the index) into a new
\* file followed by Load on an object that holds other entries gives exactly
\* the paths and the field values that were saved; and if the run saved its
\* file, a Load of that file gives them too.
C12_SaveLoadRoundTrip ==
    pc = "done" =>
       LET ms == ManifestManager_Save(manifest, NoFile, TRUE)
           ml == ManifestManager_Load(StaleManifest, ms.file)
           is == DeduplicationIndex_Save(fileHashMap, NoFile, TRUE)
           il == DeduplicationIndex_Load(StaleIndex, is.file)
       IN  /\ ms.ok /\ ml.ok /\ ml.manifest = manifest
           /\ is.ok /\ il.ok /\ il.fileHashMap = fileHashMap
           /\ run.saved =>
                IF phase = 2
                   THEN ManifestManager_Load(StaleManifest, diskFile).manifest
                           = manifest
                   ELSE DeduplicationIndex_Load(StaleIndex, diskFile).fileHashMap
                           = fileHashMap

\* A run has ended and has saved a map of three paths.
C12_Witness ==
    /\ pc = "done"
    /\ run.saved
    /\ Cardinality(DOMAIN manifest \cup DOMAIN fileHashMap) = 3
    /\ Len(diskFile.lines) = 3

(* ------------------------------ C13 ------------------------------------ *)
\* C13: at the end of every DeduplicationBackup run in which no system call
\* has failed, the reference counts in memory are those that saving the
\* index, loading it again and LoadReferenceCountsFromIndex give: for each
\* fingerprint the number of index entries that carry it.
C13_ReferenceCountRoundTrip ==
    (pc = "done" /\ phase = 3 /\ run.walked /\ faults = 0) =>
       LET sv == DeduplicationIndex_Save(fileHashMap, NoFile, TRUE)
           ld == DeduplicationIndex_Load(EmptyMap, sv.file)
       IN  /\ referenceCount = LoadReferenceCountsFromIndex(ld.fileHashMap)
           /\ \A h \in DOMAIN referenceCount :
                 referenceCount[h] =
                    Cardinality({p \in DOMAIN fileHashMap : fileHashMap[p] = h})

(* ------------------------------ C14 ------------------------------------ *)
\* The fingerprints the entries of the index m carry.
Carried(m) == {m[p] : p \in DOMAIN m}

\* C14: in DeduplicationBackup, between any two steps of any sequence of
\* runs, every fingerprint an index entry carries has a blob; a blob comes
\* into being only in a step that stores it successfully and puts its
\* fingerprint into the index entry of the file, an index entry is set only
\* to a fingerprint that has a blob, and a blob that is there stays.  So a
\* blob exists iff an index entry carries or has carried its fingerprint
\* after a successful store.
C14_BlobIndexConsistency ==
    /\ [](phase = 3 => Carried(fileHashMap) \subseteq DOMAIN blobs)
    /\ [][ /\ \A h \in DOMAIN blobs' \ DOMAIN blobs :
                /\ FileStep
                /\ lastOp'.outcome = "stored"
                /\ lastOp'.hash = h
                /\ HasFile(fileHashMap', lastOp'.path)
                /\ fileHashMap'[lastOp'.path] = h
           /\ \A p \in DOMAIN fileHashMap' :
                (p \notin DOMAIN fileHashMap \/ fileHashMap'[p] # fileHashMap[p])
                   => fileHashMap'[p] \in DOMAIN blobs'
           /\ DOMAIN blobs \subseteq DOMAIN blobs'
         ]_vars

\* A later run has ended; the index no longer carries a fingerprint whose
\* blob is in the store, and the fingerprints it carries have their blobs.
C14_Witness ==
    /\ pc = "done"
    /\ phase = 3
    /\ runs = 2
    /\ Carried(fileHashMap) # {}
    /\ DOMAIN blobs \ Carried(fileHashMap) # {}
    /\ Carried(fileHashMap) \subseteq DOMAIN blobs

(* ------------------------------ C15 ------------------------------------ *)
\* C15: DeduplicationBackup calls StoreContent for a fingerprint only when
\* no blob of that fingerprint is in the store, and no step changes the
\* content of a blob that is there; so over any sequence of runs a blob is
\* written at most once per fingerprint.
C15_WriteOnceBlobs ==
    [][ /\ (FileStep /\ phase = 3
                     /\ lastOp'.outcome \in {"stored", "storefail"})
              => lastOp'.hash \notin DOMAIN blobs
        /\ \A h \in DOMAIN blobs : h \in DOMAIN blobs' /\ blobs'[h] = blobs[h]
      ]_vars

\* In a second run a file has been stored into a store that held a blob
\* already, after a file whose blob was there had been deduplicated.
C15_Witness ==
    /\ phase = 3
    /\ runs = 2
    /\ lastOp.kind = "file"
    /\ lastOp.outcome = "stored"
    /\ stats.filesDeduped > 0
    /\ DOMAIN prev.blobs # {}
    /\ lastOp.hash \notin DOMAIN prev.blobs

(* ------------------------------ C16 ------------------------------------ *)
\* C16: no step of any run takes a blob out of the store, and at the end of
\* a run every blob the run found is there, also when no source file has
\* its content any more.
C16_NoBlobDeleted ==
    /\ [][DOMAIN blobs \subseteq DOMAIN blobs']_vars
    /\ [](pc = "done" /\ prev.valid =>
             \A h \in DOMAIN prev.blobs :
                h \in DOMAIN blobs /\ blobs[h] = prev.blobs[h])

\* A run has ended on a source that has changed since the run before it:
\* the store holds a blob whose content no source file has, and a blob this
\* run has added.
C16_Witness ==
    /\ pc = "done"
    /\ phase = 3
    /\ prev.valid
    /\ run.walked
    /\ run.clean
    /\ run.src # prev.run.src
    /\ \E h \in DOMAIN prev.blobs : blobs[h] \notin ContentsOf(run.src)
    /\ DOMAIN blobs \ DOMAIN prev.blobs # {}

(* ------------------------------ C17 ------------------------------------ *)
\* The map a new process of the program loads from the file.
LoadedFrom(file) ==
    IF phase = 2 THEN ManifestManager_Load(EmptyMap, file).manifest
                 ELSE DeduplicationIndex_Load(EmptyMap, file).fileHashMap

\* The map the running process holds.
PathMap == IF phase = 2 THEN manifest ELSE fileHashMap

\* C17: no step of a walk removes a path from the manifest / index; at the
\* end of every run the file on the disk has every path the file had when
\* the run started, and the entry of a path that is no longer in the source
\* is as it was, on the disk and, if the run came to the walk, in memory.
C17_StaleEntriesRetained ==
    /\ [][pc = "walking" =>
             /\ DOMAIN manifest \subseteq DOMAIN manifest'
             /\ DOMAIN fileHashMap \subseteq DOMAIN fileHashMap']_vars
    /\ [](pc = "done" =>
             LET old == LoadedFrom(prev.diskFile)
                 new == LoadedFrom(diskFile)
             IN  /\ DOMAIN old \subseteq DOMAIN new
                 /\ run.walked => DOMAIN old \subseteq DOMAIN PathMap
                 /\ \A p \in DOMAIN old \ DOMAIN run.src :
                       /\ new[p] = old[p]
                       /\ run.walked => PathMap[p] = old[p])

\* A run has walked a source from which a file of the run before it has
\* gone, and has saved a map that still has the path of that file.
C17_Witness ==
    /\ pc = "done"
    /\ run.walked
    /\ run.saved
    /\ stats.filesProcessed > 0
    /\ \E p \in DOMAIN LoadedFrom(prev.diskFile) \ DOMAIN run.src :
          /\ p \in DOMAIN prev.run.src
          /\ p \in DOMAIN LoadedFrom(diskFile)

(* ------------------------------ C18 ------------------------------------ *)
\* IncrementalBackup walks in a run started with --full, or started when
\* there was no manifest file to load.
FullRun ==
    /\ phase = 2
    /\ pc = "walking"
    /\ ~run.incremental \/ ~diskFile.exists

\* C18 as the specification states it: in such a run every file is hashed,
\* its copy is attempted, none is skipped, and every file is counted as New.
C18_FullModeAllNew ==
    [][ (FullRun /\ FileStep) =>
           /\ lastOp'.hashed
           /\ lastOp'.path \in run'.attempted
           /\ stats'.filesSkipped = 0
           /\ stats'.filesNew = stats.filesNew + 1
      ]_vars

\* C18, amended: in such a run the manifest is not looked up: every file is
\* hashed and its copy is attempted whatever the manifest holds, none is
\* skipped, and no file is classified: the counters of New, Modified and
\* skipped files stay 0.
C18_FullModeNoLookup ==
    [][ (FullRun /\ FileStep) =>
           /\ ~incrementalMode
           /\ lastOp'.hashed
           /\ lastOp'.path \in run'.attempted
           /\ lastOp'.outcome \in {"copied", "copyfail"}
           /\ stats'.filesSkipped = 0
           /\ stats'.filesNew = 0
           /\ stats'.filesModified = 0
      ]_vars

\* A run started with --full has copied a file that the manifest it loaded
\* has with the size, the time and the fingerprint the file has.
C18_Witness ==
    /\ phase = 2
    /\ pc = "walking"
    /\ ~run.incremental
    /\ lastOp.kind = "file"
    /\ lastOp.outcome = "copied"
    /\ LET m == ManifestManager_Load(EmptyMap, diskFile).manifest
           p == lastOp.path
       IN  /\ HasFile(m, p)
           /\ m[p] = [hash |-> Sha256(run.src[p].content),
                      size |-> SizeOf(run.src[p].content),
                      lastModified |-> run.src[p].mtime]

(* ------------------------------ C19 ------------------------------------ *)
\* C19: in DeduplicationBackup the loop body for a file whose fingerprint F
\* was computed does this.  If a blob of F is in the store: the reference
\* count of F grows by one (from 0 if F was not counted), filesDeduped by one
\* and bytesDeduplicated by the file size, and nothing is written.  If not,
\* and the store succeeds: the blob is written, the count of F is 1,
\* filesCopied grows by one and bytesCopied by the file size.  In both cases
\* the index entry of the path is then F; if the store fails the index, the
\* counts and the store are as before.
C19_StoreBranch ==
    [][ (FileStep /\ phase = 3 /\ lastOp'.hash # "") =>
          LET F == lastOp'.hash
              p == lastOp'.path
              size == SizeOf(srcFiles[p].content)
              old == IF F \in DOMAIN referenceCount THEN referenceCount[F]
                                                    ELSE 0
          IN  IF F \in DOMAIN blobs
                 THEN /\ referenceCount' = Put(referenceCount, F, old + 1)
                      /\ stats'.filesDeduped = stats.filesDeduped + 1
                      /\ stats'.bytesDeduplicated
                            = stats.bytesDeduplicated + size
                      /\ stats'.filesCopied = stats.filesCopied
                      /\ stats'.bytesCopied = stats.bytesCopied
                      /\ blobs' = blobs
                      /\ fileHashMap' = Put(fileHashMap, p, F)
              ELSE IF ~lastOp'.copyFailed
                 THEN /\ blobs' = Put(blobs, F, srcFiles[p].content)
                      /\ referenceCount' = Put(referenceCount, F, 1)
                      /\ stats'.filesCopied = stats.filesCopied + 1
                      /\ stats'.bytesCopied = stats.bytesCopied + size
                      /\ stats'.filesDeduped = stats.filesDeduped
                      /\ stats'.bytesDeduplicated = stats.bytesDeduplicated
                      /\ fileHashMap' = Put(fileHashMap, p, F)
              ELSE /\ blobs' = blobs
                   /\ referenceCount' = referenceCount
                   /\ fileHashMap' = fileHashMap
      ]_vars

\* A file has just been deduplicated against the blob another file of the
\* same walk had stored, which took the count of its fingerprint from 1 to 2.
C19_Witness ==
    /\ phase = 3
    /\ pc = "walking"
    /\ lastOp.kind = "file"
    /\ lastOp.outcome = "dedup"
    /\ stats.filesCopied = 1
    /\ stats.filesDeduped = 1
    /\ GetReferenceCount(referenceCount, lastOp.hash) = 2
    /\ HasFile(fileHashMap, lastOp.path)
    /\ fileHashMap[lastOp.path] = lastOp.hash

(***************************************************************************)
(* Load on any manifest / index file                                       *)
(***************************************************************************)
\* The number of lines of such a file.
MaxLines == 2

Number(n) == FormatInt(n)

\* A field that does not start with a number, as "abc" or "".
NotANumber == [neg |-> FALSE, digits |-> <<>>]

\* Lines of .backup_manifest.txt: the blank line; lines with no, one and two
\* delimiters; lines path|hash|size|time for two paths, one of them twice
\* with different values; such a line with a fifth field; lines whose size
\* or time is not a number.
ManifestFileLines ==
    { <<>>,
      << <<"a.txt">> >>,
      << <<"a.txt">>, "2cf2" >>,
      << <<"a.txt">>, "2cf2", Number(5) >>,
      << <<"a.txt">>, "2cf2", Number(5), Number(1) >>,
      << <<"a.txt">>, "486e", Number(5), Number(2) >>,
      << <<"b.txt">>, "8f43", Number(2), Number(1) >>,
      << <<"b.txt">>, "", Number(12), Number(1), "more" >>,
      << <<"b.txt">>, "2cf2", NotANumber, Number(1) >>,
      << <<"a.txt">>, "2cf2", Number(5), NotANumber >> }

\* Lines of .dedup_index.txt: the blank line, a line without delimiter, and
\* lines path|hash for two paths, one of them twice.
IndexFileLines ==
    { <<>>,
      << <<"a.txt">> >>,
      << <<"a.txt">>, "2cf2" >>,
      << <<"a.txt">>, "486e" >>,
      << <<"b.txt">>, "8f43" >>,
      << <<"b.txt">>, "" >> }

FilesOf(lineSet) ==
    UNION {[1..n -> lineSet] : n \in 0..MaxLines}

\* A process is about to load a file that anything may have written.
InitLoad ==
    /\ phase \in {2, 3}
    /\ diskFile \in [exists : {TRUE},
                     lines : FilesOf(IF phase = 2 THEN ManifestFileLines
                                                  ELSE IndexFileLines)]
    /\ srcRoot = "dir"
    /\ srcFiles \in InitialTrees
    /\ destDirs = {DestRoot}
    /\ destFiles = EmptyMap
    /\ blobs = EmptyMap
    /\ manifest \in {EmptyMap, [p \in {<<"b.txt">>} |->
                        [hash |-> "2cf2", size |-> 5, lastModified |-> 1]]}
    /\ incrementalMode = TRUE
    /\ fileHashMap = IF manifest = EmptyMap THEN EmptyMap
                     ELSE [p \in {<<"b.txt">>} |-> "2cf2"]
    /\ referenceCount = EmptyMap
    /\ stats = ZeroStats
    /\ stack = <<>>
    /\ pc = "idle"
    /\ result = FALSE
    /\ runs = 0
    /\ edits = 0
    /\ faults = 0
    /\ lastOp = NoOp
    /\ visits = NoVisits
    /\ run = NewRun(srcFiles, TRUE)
    /\ prev = [valid |-> FALSE, run |-> NewRun(srcFiles, TRUE),
               diskFile |-> NoFile, blobs |-> EmptyMap, destDirs |-> destDirs,
               destFiles |-> EmptyMap, stats |-> ZeroStats,
               result |-> FALSE, referenceCount |-> EmptyMap,
               fileHashMap |-> EmptyMap, manifest |-> EmptyMap]

\* manifest.Load() on an object that may hold entries.
ManifestManager_LoadFile ==
    /\ phase = 2
    /\ pc = "idle"
    /\ LET ld == ManifestManager_Load(manifest, diskFile)
       IN  /\ manifest' = ld.manifest
           /\ pc' = IF ld.threw THEN "aborted" ELSE "loaded"
           /\ result' = ld.ok
    /\ lastOp' = Op("load", <<>>, "", FALSE, "", "")
    /\ UNCHANGED <<phase, srcRoot, srcFiles, destDirs, destFiles, blobs,
                   diskFile, incrementalMode, fileHashMap, referenceCount,
                   stats, stack, runs, edits, faults, visits, run, prev>>

\* index.Load() on an object that may hold entries.
DeduplicationIndex_LoadFile ==
    /\ phase = 3
    /\ pc = "idle"
    /\ LET ld == DeduplicationIndex_Load(fileHashMap, diskFile)
       IN  /\ fileHashMap' = ld.fileHashMap
           /\ result' = ld.ok
    /\ pc' = "loaded"
    /\ lastOp' = Op("load", <<>>, "", FALSE, "", "")
    /\ UNCHANGED <<phase, srcRoot, srcFiles, destDirs, destFiles, blobs,
                   diskFile, manifest, incrementalMode, referenceCount,
                   stats, stack, runs, edits, faults, visits, run, prev>>

NextLoad ==
    \/ ManifestManager_LoadFile
    \/ DeduplicationIndex_LoadFile

SpecLoad == InitLoad /\ [][NextLoad]_vars

(* ------------------------------ C20 ------------------------------------ *)
\* A line that has its delimiters: three in the manifest, one in the index.
Delimited(line) == Len(line) >= (IF phase = 2 THEN 4 ELSE 2)

\* What a line says about its path.
EntryOf(line) ==
    IF phase = 2
       THEN [hash |-> line[2], size |-> DigitsValue(line[3].digits),
             lastModified |-> DigitsValue(line[4].digits)]
       ELSE line[2]

\* The last of the delimited lines of the file for each path.
LastEntries(lines) ==
    LET good == {i \in DOMAIN lines : Delimited(lines[i])}
        last(p) == CHOOSE i \in good :
                      /\ lines[i][1] = p
                      /\ \A j \in good : lines[j][1] = p => j <= i
    IN  [p \in {lines[i][1] : i \in good} |-> EntryOf(lines[last(p)])]

\* C20: whatever the file holds, Load ends without aborting the process and
\* reports that it loaded the file, and the map it leaves holds, for each
\* path, what the last line with that path and all its delimiters says;
\* blank lines and lines that lack a delimiter add nothing.
C20_TolerantLoad ==
    pc # "idle" =>
       /\ pc = "loaded"
       /\ result
       /\ PathMap = LastEntries(diskFile.lines)

(* ------------------------------ C21 ------------------------------------ *)
\* The number of entries of the index m that carry the fingerprint h.
EntriesWith(m, h) == Cardinality({p \in DOMAIN m : m[p] = h})

\* C21: in DeduplicationBackup, between any two steps of any sequence of
\* runs, the reference count of every fingerprint the index carries is at
\* least the number of index entries that carry it; and no step of a walk
\* lowers or drops a count.
C21_CountsNeverUnderCount ==
    /\ [](phase = 3 =>
             \A h \in Carried(fileHashMap) :
                /\ h \in DOMAIN referenceCount
                /\ referenceCount[h] >= EntriesWith(fileHashMap, h))
    /\ [][(pc = "walking" /\ pc' = "walking") =>
             \A h \in DOMAIN referenceCount :
                /\ h \in DOMAIN referenceCount'
                /\ referenceCount'[h] >= referenceCount[h]]_vars

\* In a later run a file has been deduplicated whose path the loaded index
\* had with the same fingerprint: the count is above the number of entries.
C21_Witness ==
    /\ phase = 3
    /\ runs = 2
    /\ pc = "walking"
    /\ lastOp.kind = "file"
    /\ lastOp.outcome = "dedup"
    /\ HasFile(prev.fileHashMap, lastOp.path)
    /\ prev.fileHashMap[lastOp.path] = lastOp.hash
    /\ referenceCount[lastOp.hash] > EntriesWith(fileHashMap, lastOp.hash)

(* ------------------------------ C22 ------------------------------------ *)
\* The files and the subdirectories the walk of this run has enumerated.
EnumeratedFiles == {p \in DOMAIN run.src : visits[p] = 1}

EnumeratedDirs == {d \in DirPaths : visits[d] = 1}

\* The errors of the run that are about a directory: the calls of
\* BackupDirectory, for the root and for each enumerated subdirectory, that
\* could not list the source or create the destination.
DirectoryErrors ==
    (IF run.walked THEN 1 ELSE 0) + Cardinality(EnumeratedDirs)
       - Cardinality(run.opened)

\* C22: in DeduplicationBackup the loop body for a file adds one to exactly
\* one of filesCopied, filesDeduped and errors; at the end of every run the
\* number of enumerated files is filesCopied + filesDeduped + the errors
\* that are about a file, bytesCopied + bytesDeduplicated is at most
\* totalBytes and equal to it when no file had an error, and filesProcessed
\* is the number of enumerated files and subdirectories.
C22_StatisticsConservation ==
    /\ [][(FileStep /\ phase = 3) =>
             /\ Bump(stats'.filesCopied, stats.filesCopied)
                   + Bump(stats'.filesDeduped, stats.filesDeduped)
                   + Bump(stats'.errors, stats.errors) = 1
             /\ stats'.filesProcessed = stats.filesProcessed + 1]_vars
    /\ [](pc = "done" /\ phase = 3 =>
             LET fileErrors == stats.errors - DirectoryErrors
             IN  /\ fileErrors >= 0
                 /\ Cardinality(EnumeratedFiles)
                       = stats.filesCopied + stats.filesDeduped + fileErrors
                 /\ stats.bytesCopied + stats.bytesDeduplicated
                       <= stats.totalBytes
                 /\ fileErrors = 0 =>
                       stats.bytesCopied + stats.bytesDeduplicated
                          = stats.totalBytes
                 /\ stats.filesProcessed
                       = Cardinality(EnumeratedFiles)
                            + Cardinality(EnumeratedDirs))

\* A run has ended that stored a file, deduplicated another and had an
\* error for a third.
C22_Witness ==
    /\ pc = "done"
    /\ phase = 3
    /\ Cardinality(EnumeratedFiles) = 3
    /\ Cardinality(EnumeratedDirs) = 1
    /\ stats.filesCopied = 1
    /\ stats.filesDeduped = 1
    /\ stats.errors = 1
    /\ DirectoryErrors = 0
    /\ stats.bytesCopied + stats.bytesDeduplicated < stats.totalBytes

====
